---- MODULE Spec2Model ----
(***************************************************************************)
(* Model of the AST class generator of dustlang                           *)
(* (src/generate_ast_classes.py).                                         *)
(*                                                                         *)
(* The generator keeps two pieces of module-level state: the set          *)
(* visitor_names and the syntax tree file_module.  new_node appends one   *)
(* ClassDef to a module and records the name in visitor_names when a      *)
(* visit method is wanted, generate_visitor appends the ASTVisitor class  *)
(* built from visitor_names, and main runs the fixed registration         *)
(* sequence and writes the result to AST.py.                              *)
(*                                                                         *)
(* Syntax trees are records carrying the fields the source sets.  The     *)
(* body of ASTVisitor is built by iterating a Python set, whose order is  *)
(* unspecified, so it is kept as the set of its method definitions.       *)
(***************************************************************************)
EXTENDS Integers, Sequences, FiniteSets, TLC

VARIABLES
    file_module,    \* body of the module-level ast.Module (lines 195-214)
    visitor_names,  \* the module-level set of names (line 15)
    AST_py,         \* what main() last wrote to AST.py (lines 233-235)
    calls,          \* history: the new_node / generate_visitor calls made
    runs            \* history: how often main() has run

vars == <<file_module, visitor_names, AST_py, calls, runs>>

\* ---------------------------------------------------------------- bounds
\* number of new_node / generate_visitor calls made outside main()
MaxCalls == 3
\* number of times main() is run in one process
MaxRuns == 2

\* ---------------------------------------------------------------- inputs
NoFields == << >>
BodyField == << <<"body", "list[AST]">> >>
LabelBodyFields == << <<"label", "Optional[str]">>, <<"body", "list[AST]">> >>

RootName == "AST"
VisitorName == "ASTVisitor"
MainNames == {"AST", "Module", "Block", "If", "While", "Do"}
AllNames == MainNames \cup {"Expr"}

\* the arguments of one new_node call (module is always file_module)
Decl(name, fields, parent, generate_init, abstract_visit, generate_visit) ==
    [op |-> "new_node", name |-> name, fields |-> fields, parent |-> parent,
     generate_init |-> generate_init, abstract_visit |-> abstract_visit,
     generate_visit |-> generate_visit, raised |-> "None"]

VisitorCall == [op |-> "generate_visitor", raised |-> "None"]

\* the root as main() registers it
RootDecls == {Decl(RootName, NoFields, "ABC", FALSE, TRUE, TRUE)}

\* a node below the root (parent defaults to "AST"): the field-less node
\* without constructor and visit method, the node registered with every
\* default, and a node with two fields with and without a visit method
ExprDecls ==
    {Decl("Expr", NoFields, "AST", FALSE, FALSE, FALSE),
     Decl("Expr", NoFields, "AST", TRUE, FALSE, TRUE)}
    \cup {Decl("Expr", LabelBodyFields, "AST", TRUE, FALSE, generate_visit) :
            generate_visit \in BOOLEAN}

Decls == RootDecls \cup ExprDecls

\* ------------------------------------------------------- syntax tree nodes
\* the module as constructed at import: three ImportFrom statements
file_module_init ==
    << [kind |-> "ImportFrom", module |-> "__future__", names |-> <<"annotations">>],
       [kind |-> "ImportFrom", module |-> "abc", names |-> <<"ABC", "abstractmethod">>],
       [kind |-> "ImportFrom", module |-> "typing", names |-> <<"Optional", "Any">>] >>

NumImports == Len(file_module_init)

Arg(name, annotation) == [arg |-> name, annotation |-> annotation]

Pass == [kind |-> "Pass"]

FieldNames(fields) == [i \in 1..Len(fields) |-> fields[i][1]]

\* one annotated class attribute per field
AnnAssigns(fields) ==
    [i \in 1..Len(fields) |->
        [kind |-> "AnnAssign", target |-> fields[i][1], annotation |-> fields[i][2]]]

\* def __init__(self, f1: t1, ..., fk: tk): self.f1 = f1; ...; self.fk = fk
InitDef(fields) ==
    [kind |-> "FunctionDef",
     name |-> "__init__",
     args |-> <<Arg("self", "None")>> \o
              [i \in 1..Len(fields) |-> Arg(fields[i][1], fields[i][2])],
     vararg |-> "None",
     kwarg |-> "None",
     body |-> [i \in 1..Len(fields) |->
                 [kind |-> "Assign", attr |-> fields[i][1], value |-> fields[i][1]]],
     decorator_list |-> << >>,
     returns |-> "None"]

\* AcceptDef forwarding the node alone: the Starred *args is left out
AcceptDefNodeOnly(name, abstract_visit) ==
    [kind |-> "FunctionDef",
     name |-> "accept",
     args |-> <<Arg("self", "None"), Arg("visitor", "ASTVisitor")>>,
     vararg |-> "args",
     kwarg |-> "kwargs",
     body |-> << [kind |-> "Return",
                  func |-> [value |-> "visitor", attr |-> "visit_" \o name],
                  args |-> <<[kind |-> "Name", id |-> "self"]>>,
                  keywords |-> <<[arg |-> "None", id |-> "kwargs"]>>] >>,
     decorator_list |-> IF abstract_visit THEN <<"abstractmethod">> ELSE << >>,
     returns |-> "Any"]

\* def accept(self, visitor: ASTVisitor, *args: Any, **kwargs: Any) -> Any:
\*     return visitor.visit_<name>(self, *args, **kwargs)
AcceptDef(name, abstract_visit) ==
    [kind |-> "FunctionDef",
     name |-> "accept",
     args |-> <<Arg("self", "None"), Arg("visitor", "ASTVisitor")>>,
     vararg |-> "args",
     kwarg |-> "kwargs",
     body |-> << [kind |-> "Return",
                  func |-> [value |-> "visitor", attr |-> "visit_" \o name],
                  args |-> <<[kind |-> "Name", id |-> "self"],
                             [kind |-> "Starred", id |-> "args"]>>,
                  keywords |-> <<[arg |-> "None", id |-> "kwargs"]>>] >>,
     decorator_list |-> IF abstract_visit THEN <<"abstractmethod">> ELSE << >>,
     returns |-> "Any"]

\* the ClassDef new_node appends for one declaration
NodeClassBody(d) ==
    AnnAssigns(d.fields)
    \o (IF d.generate_init THEN <<InitDef(d.fields)>> ELSE << >>)
    \o (IF d.generate_visit THEN <<AcceptDef(d.name, d.abstract_visit)>> ELSE << >>)

NodeClassDef(d) ==
    [kind |-> "ClassDef",
     name |-> d.name,
     bases |-> <<d.parent>>,
     body |-> IF NodeClassBody(d) # << >> THEN NodeClassBody(d) ELSE <<Pass>>,
     decorator_list |-> << >>]

\* VisitorNamesAfter recording the name whatever generate_visit says
VisitorNamesAlways(names, d) == names \cup {d.name}

\* visitor_names after new_node(name, generate_visit=...)
VisitorNamesAfter(names, d) ==
    IF d.generate_visit THEN names \cup {d.name} ELSE names

\* AppendClass putting the new class before the classes already emitted
InsertClassFirst(body, cls) ==
    SubSeq(body, 1, NumImports) \o <<cls>> \o SubSeq(body, NumImports + 1, Len(body))

\* the position at which new_node puts the class: module.body.append
AppendClass(body, cls) == Append(body, cls)

\* def visit_<cls>(self, node: AST, *args: Any, **kwargs: Any) -> Any: pass
VisitDef(cls) ==
    [kind |-> "FunctionDef",
     name |-> "visit_" \o cls,
     args |-> <<Arg("self", "None"), Arg("node", "AST")>>,
     vararg |-> "args",
     kwarg |-> "kwargs",
     body |-> <<Pass>>,
     decorator_list |-> <<"abstractmethod">>,
     returns |-> "Any"]

VisitorClassDef(names) ==
    [kind |-> "ClassDef",
     name |-> VisitorName,
     bases |-> <<"ABC">>,
     body |-> {VisitDef(cls) : cls \in names},
     decorator_list |-> << >>]

\* ------------------------------------------------------------ operations
\* a generator state: the module body and the registered visitor names
new_node(st, d) ==
    [body |-> AppendClass(st.body, NodeClassDef(d)),
     visitor_names |-> VisitorNamesAfter(st.visitor_names, d)]

generate_visitor(st) ==
    [body |-> Append(st.body, VisitorClassDef(st.visitor_names)),
     visitor_names |-> st.visitor_names]

\* MainDecls with the registration of Expr (commented out in main) enabled
MainDeclsWithExpr ==
    << Decl("AST", NoFields, "ABC", FALSE, TRUE, TRUE),
       Decl("Expr", NoFields, "AST", FALSE, FALSE, FALSE),
       Decl("Module", BodyField, "AST", TRUE, FALSE, TRUE),
       Decl("Block", LabelBodyFields, "AST", TRUE, FALSE, TRUE),
       Decl("If", LabelBodyFields, "AST", TRUE, FALSE, TRUE),
       Decl("While", LabelBodyFields, "AST", TRUE, FALSE, TRUE),
       Decl("Do", LabelBodyFields, "AST", TRUE, FALSE, TRUE) >>

\* the registrations of main(), in order
MainDecls ==
    << Decl("AST", NoFields, "ABC", FALSE, TRUE, TRUE),
       Decl("Module", BodyField, "AST", TRUE, FALSE, TRUE),
       Decl("Block", LabelBodyFields, "AST", TRUE, FALSE, TRUE),
       Decl("If", LabelBodyFields, "AST", TRUE, FALSE, TRUE),
       Decl("While", LabelBodyFields, "AST", TRUE, FALSE, TRUE),
       Decl("Do", LabelBodyFields, "AST", TRUE, FALSE, TRUE) >>

MainCalls == MainDecls \o <<VisitorCall>>

RECURSIVE RegisterAll(_, _)
RegisterAll(st, decls) ==
    IF decls = << >> THEN st
    ELSE RegisterAll(new_node(st, Head(decls)), Tail(decls))

\* the state main() leaves behind when started in state st
main(st) == generate_visitor(RegisterAll(st, MainDecls))

\* what main() writes to AST.py: the header line and the unparsed module
WriteFile(body) == [header |-> "# noqa: D1", module |-> body]

NoFile == [header |-> "", module |-> << >>]

CurrentState == [body |-> file_module, visitor_names |-> visitor_names]

DirectCalls == Len(calls) - runs * Len(MainCalls)

Init ==
    /\ file_module = file_module_init
    /\ visitor_names = {}
    /\ AST_py = NoFile
    /\ calls = << >>
    /\ runs = 0

NewNode ==
    /\ DirectCalls < MaxCalls
    /\ \E d \in Decls :
          LET st == new_node(CurrentState, d)
          IN /\ file_module' = st.body
             /\ visitor_names' = st.visitor_names
             /\ calls' = Append(calls, d)
    /\ UNCHANGED <<AST_py, runs>>

GenerateVisitor ==
    /\ DirectCalls < MaxCalls
    /\ LET st == generate_visitor(CurrentState)
       IN /\ file_module' = st.body
          /\ visitor_names' = st.visitor_names
    /\ calls' = Append(calls, VisitorCall)
    /\ UNCHANGED <<AST_py, runs>>

Main ==
    /\ runs < MaxRuns
    /\ LET st == main(CurrentState)
       IN /\ file_module' = st.body
          /\ visitor_names' = st.visitor_names
          /\ AST_py' = WriteFile(st.body)
    /\ calls' = calls \o MainCalls
    /\ runs' = runs + 1

Next == NewNode \/ GenerateVisitor \/ Main

Spec == Init /\ [][Next]_vars

\* ------------------------------------------- reading the emitted module
Last(seq) == seq[Len(seq)]

IsNodeDef(x) == x.kind = "ClassDef" /\ x.name # VisitorName

IsVisitorDef(x) == x.kind = "ClassDef" /\ x.name = VisitorName

NodeDefIdx(body) == {i \in 1..Len(body) : IsNodeDef(body[i])}

VisitorDefIdx(body) == {i \in 1..Len(body) : IsVisitorDef(body[i])}

\* whether a node class defines the method (its body is a statement list)
HasMethod(cls, name) ==
    \E j \in 1..Len(cls.body) :
        cls.body[j].kind = "FunctionDef" /\ cls.body[j].name = name

Method(cls, name) ==
    cls.body[CHOOSE j \in 1..Len(cls.body) :
                 cls.body[j].kind = "FunctionDef" /\ cls.body[j].name = name]

\* the names of the node classes that carry an accept method
DispatchKinds(body) ==
    {body[i].name : i \in {j \in NodeDefIdx(body) : HasMethod(body[j], "accept")}}

\* the method names of a visitor class
Capabilities(v) == {m.name : m \in v.body}

\* the names registered by the new_node calls before call i
RegisteredBefore(i) ==
    {calls[j].name : j \in {k \in 1..(i - 1) : calls[k].op = "new_node"}}

\* the class definition that call i appended to file_module
ClassOfCall(i) == file_module[NumImports + i]

\* a history of registrations closed by the single generate_visitor call
Emitted ==
    /\ Len(calls) >= 1
    /\ Last(calls).op = "generate_visitor"
    /\ \A i \in 1..(Len(calls) - 1) : calls[i].op = "new_node"

\* ------------------------------------ Python semantics of the emitted code
\* the call visitor.<method>(*posargs, **kwargs) and, the visitor being
\* arbitrary, the value it returns
Invoke(visitor, method, posargs, kwargs) ==
    [receiver |-> visitor, method |-> method, args |-> posargs, kwargs |-> kwargs]

\* positional arguments of a call: a Name is one value, a Starred is spliced
RECURSIVE EvalArgs(_, _)
EvalArgs(exprs, env) ==
    IF exprs = << >> THEN << >>
    ELSE (IF Head(exprs).kind = "Starred"
          THEN env[Head(exprs).id]
          ELSE <<env[Head(exprs).id]>>) \o EvalArgs(Tail(exprs), env)

\* keyword arguments of a call: every keyword here is a ** mapping
EvalKeywords(keywords, env) ==
    UNION {env[keywords[i].id] : i \in 1..Len(keywords)}

\* node.accept(visitor, *args, **kwargs) for an instance of class cls
CallAccept(cls, node, visitor, args, kwargs) ==
    LET f == Method(cls, "accept")
        env == [self |-> node, visitor |-> visitor, args |-> args, kwargs |-> kwargs]
        ret == f.body[1]
    IN Invoke(env[ret.func.value], ret.func.attr,
              EvalArgs(ret.args, env), EvalKeywords(ret.keywords, env))

\* the attribute assignments of a constructor body, in order
RECURSIVE ExecAssigns(_, _, _)
ExecAssigns(stmts, env, attrs) ==
    IF stmts = << >> THEN attrs
    ELSE ExecAssigns(Tail(stmts), env,
                     (Head(stmts).attr :> env[Head(stmts).value]) @@ attrs)

\* cls(*vals): a def without statements does not compile, so the module
\* that holds it cannot be loaded and no instance is made
Construct(cls, vals) ==
    LET f == Method(cls, "__init__")
        params == [i \in 1..(Len(f.args) - 1) |-> f.args[i + 1].arg]
        env == [n \in {params[i] : i \in 1..Len(params)} |->
                  vals[CHOOSE i \in 1..Len(params) : params[i] = n]]
    IN IF Len(f.body) = 0 THEN [error |-> "SyntaxError", attrs |-> << >>]
       ELSE IF Len(vals) # Len(params) THEN [error |-> "TypeError", attrs |-> << >>]
       ELSE [error |-> "None", attrs |-> ExecAssigns(f.body, env, << >>)]

\* whether a subclass of visitor class v overriding the given methods can
\* be instantiated: the class statement needs a body, and a class deriving
\* from ABC refuses to instantiate while an abstract method is left
Instantiable(v, overrides) ==
    /\ v.body # {}
    /\ "ABC" \in {v.bases[i] : i \in 1..Len(v.bases)} =>
          \A m \in v.body :
              "abstractmethod" \in {m.decorator_list[i] : i \in 1..Len(m.decorator_list)}
                  => m.name \in overrides

\* the generator state of a fresh process
FreshState == [body |-> file_module_init, visitor_names |-> {}]

NodeDefs(body) == SelectSeq(body, IsNodeDef)

VisitorDefs(body) == SelectSeq(body, IsVisitorDef)

\* ------------------------------------------------------------ sample data
Values == {"x", "y"}
ArgLists == {<< >>, <<1>>, <<1, 2>>}
KwargSets == {{}, {<<"depth", 1>>}}
CapabilityUniverse == {"visit_" \o K : K \in AllNames}

\* ================================================================= claims

\* C1 - Consistency: after registrations followed by one generate_visitor
\* call, the methods of the emitted ASTVisitor are exactly visit_K for the
\* names K of the node classes that carry an accept method.
C1_Consistency ==
    Emitted =>
        \A i \in VisitorDefIdx(file_module) :
            Capabilities(file_module[i]) =
                {"visit_" \o K : K \in DispatchKinds(file_module)}

\* C1 witness: a module was emitted holding a class with accept and a class
\* without it.
C1_Witness ==
    /\ Emitted
    /\ DispatchKinds(file_module) # {}
    /\ \E i \in NodeDefIdx(file_module) : ~HasMethod(file_module[i], "accept")

\* C2 - Uniqueness enforcement: a new_node call whose name an earlier call
\* registered fails with DuplicateNameError and adds nothing, so no two node
\* definitions of the module carry the same name.
C2_UniquenessEnforced ==
    /\ \A i \in 1..Len(calls) :
          (calls[i].op = "new_node" /\ calls[i].name \in RegisteredBefore(i))
              => calls[i].raised = "DuplicateNameError"
    /\ \A i, j \in NodeDefIdx(file_module) :
          i # j => file_module[i].name # file_module[j].name

\* C3 - Parent ordering: a new_node call naming a parent that no earlier
\* call registered fails with UnknownParentError unless it registers the
\* root, so the parent of every non-root node definition precedes it.
C3_ParentOrdering ==
    /\ \A i \in 1..Len(calls) :
          (/\ calls[i].op = "new_node"
           /\ calls[i].name # RootName
           /\ calls[i].parent \notin RegisteredBefore(i))
              => calls[i].raised = "UnknownParentError"
    /\ \A i \in NodeDefIdx(file_module) :
          file_module[i].name # RootName =>
              \E j \in NodeDefIdx(file_module) :
                  j < i /\ file_module[i].bases = <<file_module[j].name>>

\* C4 - Opt-out respected: for every declaration registered with
\* generate_visit=False the emitted visitor has no visit_<name> method and
\* the class emitted for the declaration has no accept method.
C4_OptOutRespected ==
    Emitted =>
        \A i \in 1..Len(calls) :
            (calls[i].op = "new_node" /\ ~calls[i].generate_visit) =>
                /\ ~HasMethod(ClassOfCall(i), "accept")
                /\ \A k \in VisitorDefIdx(file_module) :
                      ("visit_" \o calls[i].name) \notin Capabilities(file_module[k])

\* C5 - Dispatch forwarding: the accept method emitted for a declaration
\* registered with generate_visit=True calls visit_<name> on the visitor it
\* is given with the node first, then the positional and the named
\* arguments unchanged, and returns what that call returns.
C5_DispatchForwarding ==
    \A i \in 1..Len(calls) :
        (calls[i].op = "new_node" /\ calls[i].generate_visit) =>
            /\ HasMethod(ClassOfCall(i), "accept")
            /\ Method(ClassOfCall(i), "accept").body[1].kind = "Return"
            /\ \A args \in ArgLists, kwargs \in KwargSets :
                  LET node == [instance_of |-> calls[i].name]
                  IN CallAccept(ClassOfCall(i), node, "V", args, kwargs) =
                        Invoke("V", "visit_" \o calls[i].name, <<node>> \o args, kwargs)

\* C5 witness: a node with fields was registered with a visit method.
C5_Witness ==
    \E i \in 1..Len(calls) :
        /\ calls[i].op = "new_node"
        /\ calls[i].generate_visit
        /\ calls[i].fields # NoFields
        /\ HasMethod(ClassOfCall(i), "accept")

\* C6 - Field fidelity: for every declaration registered with
\* generate_init=True the constructor takes exactly the declared fields in
\* declared order, and constructing a node from values v1..vk yields an
\* instance whose attribute ni is vi.
C6_FieldFidelity ==
    \A i \in 1..Len(calls) :
        (calls[i].op = "new_node" /\ calls[i].generate_init) =>
            LET cls == ClassOfCall(i)
                names == FieldNames(calls[i].fields)
                k == Len(names)
            IN /\ HasMethod(cls, "__init__")
               /\ [j \in 1..k |-> Method(cls, "__init__").args[j + 1].arg] = names
               /\ Len(Method(cls, "__init__").args) = k + 1
               /\ \A vals \in [1..k -> Values] :
                     /\ Construct(cls, vals).error = "None"
                     /\ \A j \in 1..k : Construct(cls, vals).attrs[names[j]] = vals[j]

\* C7 as amended - End-to-end: after one run of main() in a fresh process
\* AST.py holds six node definitions (the root AST and Module, Block, If,
\* While, Do) and one visitor with exactly the six methods visit_AST,
\* visit_Module, visit_Block, visit_If, visit_While, visit_Do.
C7_EndToEndSix ==
    (runs = 1 /\ calls = MainCalls) =>
        /\ Len(NodeDefs(AST_py.module)) = 6
        /\ Len(VisitorDefs(AST_py.module)) = 1
        /\ Capabilities(VisitorDefs(AST_py.module)[1]) = {"visit_" \o K : K \in MainNames}
        /\ Cardinality(Capabilities(VisitorDefs(AST_py.module)[1])) = 6

\* C7 as stated - End-to-end: after one run of main() in a fresh process
\* AST.py holds five node definitions and one visitor with exactly the six
\* methods named above.
C7_EndToEndFive ==
    (runs = 1 /\ calls = MainCalls) =>
        /\ Len(NodeDefs(AST_py.module)) = 5
        /\ Len(VisitorDefs(AST_py.module)) = 1
        /\ Capabilities(VisitorDefs(AST_py.module)[1]) = {"visit_" \o K : K \in MainNames}
        /\ Cardinality(Capabilities(VisitorDefs(AST_py.module)[1])) = 6

\* C7 witness: main() has run once in a fresh process and written AST.py.
C7_Witness ==
    /\ runs = 1
    /\ calls = MainCalls
    /\ AST_py # NoFile

\* C8 - Mandatory capabilities: every method of an emitted visitor is
\* abstract and unimplemented, and a visitor is instantiable if and only if
\* it supplies every one of them.
C8_MandatoryCapabilities ==
    \A i \in VisitorDefIdx(file_module) :
        /\ \A m \in file_module[i].body :
              m.decorator_list = <<"abstractmethod">> /\ m.body = <<Pass>>
        /\ \A supplied \in SUBSET CapabilityUniverse :
              Instantiable(file_module[i], supplied)
                  <=> Capabilities(file_module[i]) \subseteq supplied

\* C9 - No cross-invocation state: whenever only main() has run, however
\* often, AST.py holds the node definitions and the visitor that one run in
\* a fresh process writes.
C9_NoCrossRunState ==
    (runs >= 1 /\ DirectCalls = 0) =>
        /\ NodeDefs(AST_py.module) = NodeDefs(main(FreshState).body)
        /\ VisitorDefs(AST_py.module) = VisitorDefs(main(FreshState).body)

\* C10 - Registration order and one-to-one output: after registrations
\* followed by one generate_visitor call the module holds, after its
\* imports, one node definition per registration in call order, each with
\* the registered name and the registered parent as its base, and then the
\* one visitor class.
C10_RegistrationOrder ==
    Emitted =>
        /\ Len(file_module) = NumImports + Len(calls)
        /\ \A i \in 1..(Len(calls) - 1) :
              /\ IsNodeDef(ClassOfCall(i))
              /\ ClassOfCall(i).name = calls[i].name
              /\ ClassOfCall(i).bases = <<calls[i].parent>>
        /\ IsVisitorDef(Last(file_module))
        /\ Cardinality(VisitorDefIdx(file_module)) = 1

\* C10 witness: two different registrations were followed by the visitor.
C10_Witness ==
    /\ Emitted
    /\ Len(calls) = 3
    /\ calls[1].name # calls[2].name

====
